---- MODULE Spec2Model ----
(***************************************************************************)
(* Bank Nifty dashboard (src/bank_nifty_dashboard.py).                     *)
(*                                                                         *)
(* The script is re-executed top to bottom on every control change: it     *)
(* reads the three sidebar controls, restricts the ticker directory to the *)
(* selected companies, fetches one quote per symbol, builds a DataFrame,   *)
(* filters it, shows the styled table, draws one chart per row and builds  *)
(* the Excel download.                                                     *)
(*                                                                         *)
(* Number encoding (TLC has integers only):                                *)
(*   prices            integers, compared exactly (x * 0.95 as x*95/100)   *)
(*   marketCap         in units of 10^4, "Market Cap (Cr)" in hundredths   *)
(*   returnOnEquity    in units of 10^-5, "ROE (%)" in hundredths          *)
(*   trailingPE        in hundredths                                       *)
(* An optional value (a dict key that may be missing, None, NaN) is a      *)
(* sequence of length 0 or 1.                                              *)
(***************************************************************************)
EXTENDS Integers, Sequences, FiniteSets

VARIABLES
    pc,                  \* position of the script
    selected_companies,  \* sidebar multiselect, in the order selected
    min_roe,             \* sidebar slider "Minimum ROE (%)"
    max_pe,              \* sidebar slider "Maximum P/E Ratio"
    filtered_tickers,    \* the selection-restricted mapping, as <<name, symbol>> pairs
    requests,            \* symbols asked of the provider in this run, in order
    info,                \* the provider's last answer (stock.info)
    data,                \* the list fetch_data builds
    df,                  \* the DataFrame: assembled table, then the filtered one
    snapshot,            \* what st.dataframe shows
    charts,              \* the figures given to st.pyplot
    excel_data,          \* the bytes given to the download button
    error                \* the exception that ended the run, if any

vars == <<pc, selected_companies, min_roe, max_pe, filtered_tickers, requests,
          info, data, df, snapshot, charts, excel_data, error>>

---------------------------------------------------------------------------
(* Bounds of the model *)

\* how many entries of the ticker directory the modelled dashboard offers
NumCompanies == 2

\* largest price the row normalizer is exercised with
MaxPrice == 21

---------------------------------------------------------------------------
(* Static configuration *)

bank_nifty_tickers ==
    << <<"HDFC Bank", "HDFCBANK.NS">>,
       <<"ICICI Bank", "ICICIBANK.NS">>,
       <<"Axis Bank", "AXISBANK.NS">>,
       <<"Kotak Mahindra Bank", "KOTAKBANK.NS">>,
       <<"State Bank of India", "SBIN.NS">>,
       <<"IndusInd Bank", "INDUSINDBK.NS">>,
       <<"Bank of Baroda", "BANKBARODA.NS">>,
       <<"Punjab National Bank", "PNB.NS">>,
       <<"Canara Bank", "CANBK.NS">>,
       <<"Federal Bank", "FEDERALBNK.NS">>,
       <<"IDFC First Bank", "IDFCFIRSTB.NS">>,
       <<"AU Small Finance Bank", "AUBANK.NS">> >>

\* the entries the modelled dashboard offers
Directory == SubSeq(bank_nifty_tickers, 1, NumCompanies)

\* list(bank_nifty_tickers.keys())
CompanyNames == [i \in DOMAIN Directory |-> Directory[i][1]]

\* bank_nifty_tickers[k]
SymbolOf(name) ==
    LET i == CHOOSE j \in DOMAIN bank_nifty_tickers : bank_nifty_tickers[j][1] = name
    IN  bank_nifty_tickers[i][2]

MinRoeLo == 0
MinRoeHi == 30
MinRoeDefault == 10
MaxPeLo == 5
MaxPeHi == 50
MaxPeDefault == 25

\* slider positions the model visits: both ends, the default and its two
\* neighbours. The provider's answers below sit on and next to the defaults, so
\* these five positions are every way a slider can stand relative to a row.
MinRoeChoices ==
    {MinRoeLo, MinRoeDefault - 1, MinRoeDefault, MinRoeDefault + 1, MinRoeHi}
MaxPeChoices ==
    {MaxPeLo, MaxPeDefault - 1, MaxPeDefault, MaxPeDefault + 1, MaxPeHi}

Range(s) == {s[i] : i \in DOMAIN s}

\* what the multiselect can return: distinct offered names, in the order chosen
Selections ==
    {s \in UNION {[1..n -> Range(CompanyNames)] : n \in 0..NumCompanies} :
        \A i, j \in DOMAIN s : i # j => s[i] # s[j]}

---------------------------------------------------------------------------
(* The provider's answers *)

Absent == <<>>
Some(v) == <<v>>

\* dict.get(key, default)
Get(field, default) == IF field = Absent THEN default ELSE field[1]

\* an answer with no field at all
EmptyInfo ==
    [currentPrice |-> Absent, fiftyTwoWeekHigh |-> Absent, fiftyTwoWeekLow |-> Absent,
     marketCap |-> Absent, trailingPE |-> Absent, returnOnEquity |-> Absent]

\* answers the pipeline is run against: nothing at all, or a full quote whose
\* P/E is missing, on, or just above the default maximum and whose ROE rounds
\* to just below the default minimum (0.09994 -> 9.99) or up to it
\* (0.09996 -> 10.00)
Infos ==
    {EmptyInfo} \cup
    [currentPrice : {Some(1500)}, fiftyTwoWeekHigh : {Some(1600)},
     fiftyTwoWeekLow : {Some(1000)}, marketCap : {Some(350000000)},
     trailingPE : {Absent, Some(MaxPeDefault * 100), Some(MaxPeDefault * 100 + 1)},
     returnOnEquity : {Some(MinRoeDefault * 1000 - 6), Some(MinRoeDefault * 1000 - 4)}]

\* quotes the row normalizer alone is run against: every price missing or
\* anywhere in 0..MaxPrice
OptPrices == {Absent} \cup {Some(p) : p \in 0..MaxPrice}

QuoteSpace ==
    [currentPrice : OptPrices, fiftyTwoWeekHigh : OptPrices,
     fiftyTwoWeekLow : OptPrices, marketCap : {Absent}, trailingPE : {Absent},
     returnOnEquity : {Absent}]

---------------------------------------------------------------------------
(* fetch_data: one row per ticker *)

\* Trend with the up test made inclusive
Trend_UpInclusive(current, high, low) ==
    IF current * 100 >= high * 95 THEN "Up"
    ELSE IF current * 100 < low * 105 THEN "Down"
    ELSE "Flat"

\* Trend with the down test tried first
Trend_DownFirst(current, high, low) ==
    IF current * 100 < low * 105 THEN "Down"
    ELSE IF current * 100 > high * 95 THEN "Up"
    ELSE "Flat"

\* the trend glyph: up if current > high * 0.95, else down if current < low * 1.05
Trend(current, high, low) ==
    IF current * 100 > high * 95 THEN "Up"
    ELSE IF current * 100 < low * 105 THEN "Down"
    ELSE "Flat"

\* round(n / d) for d > 0, to the nearest integer, a tie to the even one.
\* Python rounds the binary float, so on an exact decimal tie it may go either
\* way; the provider's answers above avoid ties.
RoundHalfEven(n, d) ==
    LET q == n \div d
        r == n % d
    IN  IF 2 * r < d THEN q
        ELSE IF 2 * r > d THEN q + 1
        ELSE IF q % 2 = 0 THEN q ELSE q + 1

\* the dict appended for one ticker
MakeRecord(name, i) ==
    LET current == Get(i.currentPrice, 0)
        high == Get(i.fiftyTwoWeekHigh, 0)
        low == Get(i.fiftyTwoWeekLow, 0)
    IN  [Company |-> name,
         CurrentPrice |-> current,
         High52Week |-> high,
         Low52Week |-> low,
         Trend |-> Trend(current, high, low),
         MarketCapCr |-> RoundHalfEven(Get(i.marketCap, 0), 10),
         PERatio |-> i.trailingPE,
         ROEPct |-> RoundHalfEven(Get(i.returnOnEquity, 0), 10)]

\* AppendRow putting the new row first
AppendRow_Prepend(rows, rec) == <<rec>> \o rows

\* data.append(...)
AppendRow(rows, rec) == Append(rows, rec)

Columns ==
    <<"Company", "Current Price", "52-Week High", "52-Week Low", "Trend",
      "Market Cap (Cr)", "P/E Ratio", "ROE (%)">>

\* pd.DataFrame(data): a list with no dict gives a frame with no column
DataFrame(rows) ==
    [columns |-> IF rows = <<>> THEN <<>> ELSE Columns, rows |-> rows]

NoFrame == [columns |-> <<>>, rows |-> <<>>]

---------------------------------------------------------------------------
(* The script's own steps *)

\* {k: bank_nifty_tickers[k] for k in selected_companies}
FilteredTickers(selected) ==
    [i \in DOMAIN selected |-> <<selected[i], SymbolOf(selected[i])>>]

\* KeepRow letting a missing P/E pass the maximum-P/E test
KeepRow_AbsentPasses(r, minRoe, maxPe) ==
    /\ r.ROEPct >= minRoe * 100
    /\ (r.PERatio = Absent \/ r.PERatio[1] <= maxPe * 100)

\* KeepRow with the maximum-P/E test made strict
KeepRow_StrictPE(r, minRoe, maxPe) ==
    /\ r.ROEPct >= minRoe * 100
    /\ r.PERatio # Absent
    /\ r.PERatio[1] < maxPe * 100

\* one row's mask: (ROE >= min_roe) & (P/E <= max_pe); a comparison with a
\* missing P/E (None, NaN) is False
KeepRow(r, minRoe, maxPe) ==
    /\ r.ROEPct >= minRoe * 100
    /\ r.PERatio # Absent
    /\ r.PERatio[1] <= maxPe * 100

\* FilterStage losing the first row it keeps
FilterStage_SkipsFirstRow(frame, minRoe, maxPe) ==
    LET kept == SelectSeq(frame.rows,
                          LAMBDA r : /\ r.ROEPct >= minRoe * 100
                                     /\ r.PERatio # Absent
                                     /\ r.PERatio[1] <= maxPe * 100)
    IN  [columns |-> frame.columns,
         rows |-> IF kept = <<>> THEN kept ELSE Tail(kept)]

\* df[mask]: the rows whose mask is True, in order, columns kept
FilterStage(frame, minRoe, maxPe) ==
    [columns |-> frame.columns,
     rows |-> SelectSeq(frame.rows, LAMBDA r : KeepRow(r, minRoe, maxPe))]

\* style_df: highlight_max on Current Price and ROE (%), highlight_min on
\* P/E Ratio and 52-Week Low, each over its own column
style_df(frame) ==
    LET rows == frame.rows
        present == {i \in DOMAIN rows : rows[i].PERatio # Absent}
    IN  [rows |-> rows,
         max_cells |->
            {<<i, "Current Price">> :
                i \in {k \in DOMAIN rows :
                        \A j \in DOMAIN rows :
                            rows[k].CurrentPrice >= rows[j].CurrentPrice}}
            \cup
            {<<i, "ROE (%)">> :
                i \in {k \in DOMAIN rows :
                        \A j \in DOMAIN rows : rows[k].ROEPct >= rows[j].ROEPct}},
         min_cells |->
            {<<i, "P/E Ratio">> :
                i \in {k \in present :
                        \A j \in present : rows[k].PERatio[1] <= rows[j].PERatio[1]}}
            \cup
            {<<i, "52-Week Low">> :
                i \in {k \in DOMAIN rows :
                        \A j \in DOMAIN rows :
                            rows[k].Low52Week <= rows[j].Low52Week}}]

NoSnapshot == [rows |-> <<>>, max_cells |-> {}, min_cells |-> {}]

\* Charts drawing no figure for the first row
Charts_SkipsFirstRow(frame) ==
    [i \in 1..(Len(frame.rows) - 1) |->
        [title |-> <<frame.rows[i + 1].Company, frame.rows[i + 1].Trend>>,
         labels |-> <<"Current", "High", "Low">>,
         bars |-> <<frame.rows[i + 1].CurrentPrice, frame.rows[i + 1].High52Week,
                    frame.rows[i + 1].Low52Week>>]]

\* the charting loop: one figure per row of df, in row order
Charts(frame) ==
    [i \in DOMAIN frame.rows |->
        [title |-> <<frame.rows[i].Company, frame.rows[i].Trend>>,
         labels |-> <<"Current", "High", "Low">>,
         bars |-> <<frame.rows[i].CurrentPrice, frame.rows[i].High52Week,
                    frame.rows[i].Low52Week>>]]

\* convert_df_to_excel: one sheet, the header and the rows, no index column
convert_df_to_excel(frame) ==
    [sheet_name |-> "BankNifty", header |-> frame.columns, rows |-> frame.rows]

---------------------------------------------------------------------------
(* State machine *)

\* a fresh execution of the script: nothing of the previous run is kept
Rerun ==
    /\ pc' = "run"
    /\ filtered_tickers' = <<>>
    /\ requests' = <<>>
    /\ info' = EmptyInfo
    /\ data' = <<>>
    /\ df' = NoFrame
    /\ snapshot' = NoSnapshot
    /\ charts' = <<>>
    /\ excel_data' = Absent
    /\ error' = "none"

Init ==
    /\ pc = "run"
    /\ selected_companies = CompanyNames
    /\ min_roe = MinRoeDefault
    /\ max_pe = MaxPeDefault
    /\ filtered_tickers = <<>>
    /\ requests = <<>>
    /\ info = EmptyInfo
    /\ data = <<>>
    /\ df = NoFrame
    /\ snapshot = NoSnapshot
    /\ charts = <<>>
    /\ excel_data = Absent
    /\ error = "none"

Ended == pc \in {"done", "aborted"}

\* the user changes the multiselect
ChangeSelection ==
    /\ Ended
    /\ \E s \in Selections : s # selected_companies /\ selected_companies' = s
    /\ UNCHANGED <<min_roe, max_pe>>
    /\ Rerun

\* the user moves the minimum-ROE slider
ChangeMinRoe ==
    /\ Ended
    /\ \E v \in MinRoeChoices : v # min_roe /\ min_roe' = v
    /\ UNCHANGED <<selected_companies, max_pe>>
    /\ Rerun

\* the user moves the maximum-P/E slider
ChangeMaxPe ==
    /\ Ended
    /\ \E v \in MaxPeChoices : v # max_pe /\ max_pe' = v
    /\ UNCHANGED <<selected_companies, min_roe>>
    /\ Rerun

\* the script up to the call of fetch_data
BuildTickers ==
    /\ pc = "run"
    /\ filtered_tickers' = FilteredTickers(selected_companies)
    /\ data' = <<>>
    /\ pc' = "fetch"
    /\ UNCHANGED <<selected_companies, min_roe, max_pe, requests, info, df,
                   snapshot, charts, excel_data, error>>

\* one turn of fetch_data's loop, the provider answers
FetchOne ==
    /\ pc = "fetch"
    /\ Len(data) < Len(filtered_tickers)
    /\ LET t == filtered_tickers[Len(data) + 1]
       IN  /\ requests' = Append(requests, t[2])
           /\ \E i \in Infos :
                /\ info' = i
                /\ data' = AppendRow(data, MakeRecord(t[1], i))
    /\ UNCHANGED <<pc, selected_companies, min_roe, max_pe, filtered_tickers, df,
                   snapshot, charts, excel_data, error>>

\* one turn of fetch_data's loop, the provider raises: nothing catches it
FetchRaise ==
    /\ pc = "fetch"
    /\ Len(data) < Len(filtered_tickers)
    /\ requests' = Append(requests, filtered_tickers[Len(data) + 1][2])
    /\ error' = "ProviderError"
    /\ pc' = "aborted"
    /\ UNCHANGED <<selected_companies, min_roe, max_pe, filtered_tickers, info,
                   data, df, snapshot, charts, excel_data>>

\* fetch_data returns the assembled table
FetchReturn ==
    /\ pc = "fetch"
    /\ Len(data) = Len(filtered_tickers)
    /\ df' = DataFrame(data)
    /\ pc' = "filter"
    /\ UNCHANGED <<selected_companies, min_roe, max_pe, filtered_tickers, requests,
                   info, data, snapshot, charts, excel_data, error>>

\* the filter line: df["ROE (%)"] raises KeyError on a frame with no column
Filter ==
    /\ pc = "filter"
    /\ IF df.columns = <<>>
       THEN /\ error' = "KeyError"
            /\ pc' = "aborted"
            /\ UNCHANGED df
       ELSE /\ df' = FilterStage(df, min_roe, max_pe)
            /\ pc' = "present"
            /\ UNCHANGED error
    /\ UNCHANGED <<selected_companies, min_roe, max_pe, filtered_tickers, requests,
                   info, data, snapshot, charts, excel_data>>

\* st.dataframe(style_df(df))
ShowSnapshot ==
    /\ pc = "present"
    /\ snapshot' = style_df(df)
    /\ pc' = "chart"
    /\ UNCHANGED <<selected_companies, min_roe, max_pe, filtered_tickers, requests,
                   info, data, df, charts, excel_data, error>>

\* the charting loop
DrawCharts ==
    /\ pc = "chart"
    /\ charts' = Charts(df)
    /\ pc' = "export"
    /\ UNCHANGED <<selected_companies, min_roe, max_pe, filtered_tickers, requests,
                   info, data, df, snapshot, excel_data, error>>

\* the Excel bytes and the download button
Export ==
    /\ pc = "export"
    /\ excel_data' = Some(convert_df_to_excel(df))
    /\ pc' = "done"
    /\ UNCHANGED <<selected_companies, min_roe, max_pe, filtered_tickers, requests,
                   info, data, df, snapshot, charts, error>>

Next ==
    \/ ChangeSelection
    \/ ChangeMinRoe
    \/ ChangeMaxPe
    \/ BuildTickers
    \/ FetchOne
    \/ FetchRaise
    \/ FetchReturn
    \/ Filter
    \/ ShowSnapshot
    \/ DrawCharts
    \/ Export

Spec == Init /\ [][Next]_vars

---------------------------------------------------------------------------
(* The row normalizer on its own: one quote in, one row out *)

InitNormalizer ==
    /\ pc = "normalize"
    /\ selected_companies = CompanyNames
    /\ min_roe = MinRoeDefault
    /\ max_pe = MaxPeDefault
    /\ filtered_tickers = <<>>
    /\ requests = <<>>
    /\ info = EmptyInfo
    /\ data = <<>>
    /\ df = NoFrame
    /\ snapshot = NoSnapshot
    /\ charts = <<>>
    /\ excel_data = Absent
    /\ error = "none"

\* the body of fetch_data's loop for one company and one quote
NormalizeRow ==
    /\ pc = "normalize"
    /\ \E name \in Range(CompanyNames), q \in QuoteSpace :
            /\ info' = q
            /\ data' = AppendRow(data, MakeRecord(name, q))
    /\ pc' = "normalized"
    /\ UNCHANGED <<selected_companies, min_roe, max_pe, filtered_tickers, requests,
                   df, snapshot, charts, excel_data, error>>

NextNormalizer == NormalizeRow

SpecNormalizer == InitNormalizer /\ [][NextNormalizer]_vars

---------------------------------------------------------------------------
(* Properties *)

\* the script has passed the filter line
PostFilter == pc \in {"present", "chart", "export", "done"}

\* the strict up and down tests of the trend rule, on a row
UpTest(r) == r.CurrentPrice * 100 > r.High52Week * 95
DownTest(r) == r.CurrentPrice * 100 < r.Low52Week * 105

AllZero(r) == r.CurrentPrice = 0 /\ r.High52Week = 0 /\ r.Low52Week = 0

\* s is t with some elements left out, order kept
IsSubSeq(s, t) ==
    \E f \in [DOMAIN s -> DOMAIN t] :
        /\ \A i, j \in DOMAIN s : i < j => f[i] < f[j]
        /\ \A i \in DOMAIN s : t[f[i]] = s[i]

\* C1 as stated: after the filter, every fetched row with no P/E and
\* ROE >= min_roe is in the filtered table.
C1_AbsentPERetained ==
    PostFilter =>
        \A i \in DOMAIN data :
            (data[i].PERatio = Absent /\ data[i].ROEPct >= min_roe * 100)
                => data[i] \in Range(df.rows)

\* C1 as amended: after the filter, no fetched row with a missing P/E is in
\* the filtered table, whatever its ROE and whatever the two sliders say.
C1_AbsentPEDropped ==
    PostFilter =>
        \A i \in DOMAIN data :
            data[i].PERatio = Absent => data[i] \notin Range(df.rows)

\* a row with no P/E and enough ROE was fetched and the filter removed it,
\* while keeping another row
C1_Witness ==
    /\ PostFilter
    /\ df.rows # <<>>
    /\ \E i \in DOMAIN data :
            /\ data[i].PERatio = Absent
            /\ data[i].ROEPct >= min_roe * 100
            /\ data[i] \notin Range(df.rows)

\* C2 as stated: a row built from current = high = low = 0 has trend Up.
C2_AllZeroIsUp ==
    \A i \in DOMAIN data : AllZero(data[i]) => data[i].Trend = "Up"

\* C2 as amended: a row built from current = high = low = 0 (given as zeros
\* or defaulted because the provider omitted the fields) has trend Flat.
C2_AllZeroIsFlat ==
    \A i \in DOMAIN data : AllZero(data[i]) => data[i].Trend = "Flat"

\* the provider omitted all three prices and the row built from the defaults
\* is Flat
C2_Witness ==
    /\ pc = "normalized"
    /\ info.currentPrice = Absent
    /\ info.fiftyTwoWeekHigh = Absent
    /\ info.fiftyTwoWeekLow = Absent
    /\ \E i \in DOMAIN data : AllZero(data[i]) /\ data[i].Trend = "Flat"

\* C3 as stated: a run with nothing selected ends without an error, with an
\* empty filtered table, no chart, and the Excel bytes built.
C3_EmptySelectionCompletes ==
    (selected_companies = <<>> /\ Ended) =>
        /\ pc = "done"
        /\ error = "none"
        /\ df.rows = <<>>
        /\ charts = <<>>
        /\ excel_data # Absent

\* C4 as stated: a provider that answers nothing or raises for a symbol does
\* not end the run; every symbol asked so far has its row, a symbol answered
\* with nothing has the all-zero row with no P/E, and the assembled table has
\* one row per selected company.
C4_ProviderFailureSubstituted ==
    /\ error # "ProviderError"
    /\ Len(data) = Len(requests)
    /\ (pc = "fetch" /\ data # <<>> /\ info = EmptyInfo) =>
            LET r == data[Len(data)]
            IN  /\ AllZero(r)
                /\ r.MarketCapCr = 0
                /\ r.ROEPct = 0
                /\ r.PERatio = Absent
    /\ (pc = "filter" \/ PostFilter) =>
            /\ Len(data) = Len(selected_companies)
            /\ \A i \in DOMAIN data : data[i].Company = selected_companies[i]

\* C5: after the filter every row of the filtered table is a selected company
\* of the directory with ROE >= min_roe and, when it has a P/E, P/E <= max_pe;
\* a fetched row with ROE = min_roe and P/E = max_pe is kept; a fetched row
\* with ROE < min_roe is not.
C5_ResultSatisfiesCriteria ==
    PostFilter =>
        /\ \A i \in DOMAIN df.rows :
            LET r == df.rows[i]
            IN  /\ r.Company \in Range(selected_companies)
                /\ \E k \in DOMAIN bank_nifty_tickers :
                        bank_nifty_tickers[k][1] = r.Company
                /\ r.ROEPct >= min_roe * 100
                /\ r.PERatio # Absent => r.PERatio[1] <= max_pe * 100
        /\ \A i \in DOMAIN data :
            /\ (data[i].ROEPct = min_roe * 100 /\ data[i].PERatio = Some(max_pe * 100))
                    => data[i] \in Range(df.rows)
            /\ data[i].ROEPct < min_roe * 100 => data[i] \notin Range(df.rows)

\* one row exactly on both limits was kept and one row below the ROE limit
\* was dropped
C5_Witness ==
    /\ PostFilter
    /\ \E i \in DOMAIN df.rows :
            /\ df.rows[i].ROEPct = min_roe * 100
            /\ df.rows[i].PERatio = Some(max_pe * 100)
    /\ \E i \in DOMAIN data :
            /\ data[i].ROEPct < min_roe * 100
            /\ data[i].PERatio # Absent
            /\ data[i].PERatio[1] <= max_pe * 100
            /\ data[i] \notin Range(df.rows)

\* C6: filtering the filtered table again with the same sliders gives the same
\* table, rows and order; before the filter line, filtering the assembled
\* table twice gives what filtering it once gives.
C6_FilterIdempotent ==
    /\ PostFilter => FilterStage(df, min_roe, max_pe) = df
    /\ (pc = "filter" /\ df.columns # <<>>) =>
            LET once == FilterStage(df, min_roe, max_pe)
            IN  FilterStage(once, min_roe, max_pe) = once

\* a row with no P/E was fetched, and the filter kept some row and removed
\* some row
C6_Witness ==
    /\ PostFilter
    /\ Len(df.rows) >= 1
    /\ Len(df.rows) < Len(data)
    /\ \E i \in DOMAIN data : data[i].PERatio = Absent

\* C7: every row's trend is Up when current > 0.95 * high (also when
\* current < 1.05 * low holds too), otherwise Down when current < 1.05 * low,
\* otherwise Flat; it is one of the three.
C7_TrendRule ==
    \A i \in DOMAIN data :
        LET r == data[i]
        IN  /\ r.Trend \in {"Up", "Down", "Flat"}
            /\ UpTest(r) => r.Trend = "Up"
            /\ (~UpTest(r) /\ DownTest(r)) => r.Trend = "Down"
            /\ (~UpTest(r) /\ ~DownTest(r)) => r.Trend = "Flat"

\* a quote for which both tests hold was normalized, and its trend is Up
C7_Witness ==
    /\ pc = "normalized"
    /\ \E i \in DOMAIN data :
            UpTest(data[i]) /\ DownTest(data[i]) /\ data[i].Trend = "Up"

\* C8: the rows fetched so far are the first selected companies in the order
\* selected; the assembled table has one row per selected company; the
\* filtered table is the assembled one with rows left out, order kept.
C8_OrderPreserved ==
    /\ Len(data) <= Len(selected_companies)
    /\ \A i \in DOMAIN data : data[i].Company = selected_companies[i]
    /\ pc = "filter" =>
            /\ Len(data) = Len(selected_companies)
            /\ df.rows = data
    /\ PostFilter =>
            /\ Len(data) = Len(selected_companies)
            /\ IsSubSeq(df.rows, data)

\* the user selected the companies in an order other than the directory's
\* and the filter kept at least two of them
C8_Witness ==
    /\ PostFilter
    /\ Len(df.rows) >= 2
    /\ \E i \in DOMAIN selected_companies : selected_companies[i] # CompanyNames[i]

\* C9 as stated: a run that has ended asked the provider exactly once for
\* each selected symbol, in order, and for no other.
C9_EveryRunRequestsEverySelected ==
    Ended =>
        /\ Len(requests) = Len(selected_companies)
        /\ \A i \in DOMAIN requests : requests[i] = SymbolOf(selected_companies[i])

\* C10: the table shown, the charts and the Excel sheet all hold the filtered
\* table: shown rows = df rows; one chart per row, in order, titled with the
\* row's company and trend, its bars the row's three prices; the sheet has
\* the table's columns and rows, each of which passes the filter.
C10_PresentationFromResult ==
    /\ pc \in {"chart", "export", "done"} => snapshot.rows = df.rows
    /\ pc \in {"export", "done"} =>
            /\ Len(charts) = Len(df.rows)
            /\ \A i \in DOMAIN charts :
                    /\ charts[i].title = <<df.rows[i].Company, df.rows[i].Trend>>
                    /\ charts[i].bars = <<df.rows[i].CurrentPrice,
                                          df.rows[i].High52Week, df.rows[i].Low52Week>>
    /\ pc = "done" =>
            /\ excel_data # Absent
            /\ excel_data[1].header = Columns
            /\ excel_data[1].rows = df.rows
            /\ \A i \in DOMAIN excel_data[1].rows :
                    LET r == excel_data[1].rows[i]
                    IN  /\ r \in Range(data)
                        /\ r.ROEPct >= min_roe * 100
                        /\ r.PERatio # Absent
                        /\ r.PERatio[1] <= max_pe * 100

\* a run ended with a row removed by the filter and at least one chart drawn
C10_Witness ==
    /\ pc = "done"
    /\ Len(charts) >= 1
    /\ Len(df.rows) < Len(data)

====
